---- MODULE Spec2Model ----
(***************************************************************************)
(* NoteEase (notes_frontend/src/App.js): the App component's state, its    *)
(* effects and its event handlers as a state machine.                      *)
(*                                                                         *)
(* A JavaScript string is a sequence of one-character strings.  The value  *)
(* of the localStorage key "noteease-notes" is the sequence of the JSON    *)
(* tokens of its text (a string literal token carries its characters).     *)
(* One action is one event: the handler, the render that follows and the   *)
(* effects run until no dependency changes any more.                       *)
(***************************************************************************)
EXTENDS Integers, Sequences, FiniteSets, TLC

\* ---------------------------------------------------------------- bounds
MaxNotes == 2       \* no create-save beyond this many notes in the collection
MaxClock == 3       \* the clock (milliseconds since the epoch) stops here

\* ----------------------------------------------------------- JS strings
null == <<"null">>                  \* the value null (no string: "null" is no character)
EmptyStr == << >>                  \* the string ""
Untitled == <<"(", "U", "n", "t", "i", "t", "l", "e", "d", ")">>

Falsy(v) == v = null \/ v = EmptyStr  \* !v for v a string or null
Truthy(v) == ~Falsy(v)

IsSpace(c) == c = " "

\* trim left out: (editNote.title || "")
TrimNone(s) == s

RECURSIVE TrimStart(_)
TrimStart(s) == IF s # EmptyStr /\ IsSpace(Head(s)) THEN TrimStart(Tail(s)) ELSE s

RECURSIVE TrimEnd(_)
TrimEnd(s) ==
    IF s # EmptyStr /\ IsSpace(s[Len(s)]) THEN TrimEnd(SubSeq(s, 1, Len(s) - 1)) ELSE s

\* String.prototype.trim
Trim(s) == TrimEnd(TrimStart(s))

\* (x || "")
OrEmpty(v) == IF Falsy(v) THEN EmptyStr ELSE v

LowerChar(c) ==
    CASE c = "A" -> "a"
      [] c = "B" -> "b"
      [] c = "U" -> "u"
      [] c = "T" -> "t"
      [] c = "Z" -> "z"
      [] OTHER -> c

\* toLowerCase left out: the search compares the strings as they are
ToLowerCaseNone(s) == s

\* String.prototype.toLowerCase
ToLowerCase(s) == [i \in 1..Len(s) |-> LowerChar(s[i])]

\* String.prototype.includes
Includes(hay, needle) ==
    \E i \in 0..(Len(hay) - Len(needle)) : SubSeq(hay, i + 1, i + Len(needle)) = needle

Digit(d) ==
    CASE d = 0 -> "0" [] d = 1 -> "1" [] d = 2 -> "2" [] d = 3 -> "3" [] d = 4 -> "4"
      [] d = 5 -> "5" [] d = 6 -> "6" [] d = 7 -> "7" [] d = 8 -> "8" [] d = 9 -> "9"

RECURSIVE NumberToString(_)
\* Number.prototype.toString of a non-negative integer
NumberToString(n) ==
    IF n < 10 THEN <<Digit(n)>> ELSE NumberToString(n \div 10) \o <<Digit(n % 10)>>

\* Date.prototype.toISOString of an instant in the first second of the epoch
ToISOString(ms) ==
    <<"1", "9", "7", "0", "-", "0", "1", "-", "0", "1", "T",
      "0", "0", ":", "0", "0", ":", "0", "0", ".">>
    \o <<Digit(ms \div 100), Digit((ms \div 10) % 10), Digit(ms % 10), "Z">>

\* ------------------------------------------------------------------ JSON
Tok(t) == [t |-> t, s |-> EmptyStr]
StrTok(s) == [t |-> "str", s |-> s]
LBracket == Tok("[")
RBracket == Tok("]")
LBrace == Tok("{")
RBrace == Tok("}")
Colon == Tok(":")
Comma == Tok(",")
NullTok == Tok("null")
BadTok == Tok("bad")                \* text that is no JSON token

KeyId == <<"i", "d">>
KeyTitle == <<"t", "i", "t", "l", "e">>
KeyContent == <<"c", "o", "n", "t", "e", "n", "t">>
KeyLastEdited == <<"l", "a", "s", "t", "E", "d", "i", "t", "e", "d">>

\* JSON.stringify of one note object { id, title, content, lastEdited }
StringifyNote(n) ==
    <<LBrace, StrTok(KeyId), Colon, StrTok(n.id), Comma,
      StrTok(KeyTitle), Colon, StrTok(n.title), Comma,
      StrTok(KeyContent), Colon, StrTok(n.content), Comma,
      StrTok(KeyLastEdited), Colon, StrTok(n.lastEdited), RBrace>>

RECURSIVE StringifyElems(_)
StringifyElems(ns) ==
    IF ns = << >> THEN << >>
    ELSE IF Len(ns) = 1 THEN StringifyNote(ns[1])
    ELSE StringifyNote(ns[1]) \o <<Comma>> \o StringifyElems(Tail(ns))

\* JSON.stringify(notes)
JSONStringify(ns) == <<LBracket>> \o StringifyElems(ns) \o <<RBracket>>

\* A parsed JSON value: kind, the characters of a string, the elements of an
\* array or the [key, val] members of an object.
Value(kind, s, elems) == [kind |-> kind, s |-> s, elems |-> elems]
ParseFail == [ok |-> FALSE, val |-> Value("none", EmptyStr, << >>), next |-> 0]
ParseOk(v, next) == [ok |-> TRUE, val |-> v, next |-> next]

RECURSIVE ParseValue(_, _)
RECURSIVE ParseElems(_, _, _)
RECURSIVE ParseMembers(_, _, _)

\* the elements of an array after "[" or ",": toks[i] starts a value
ParseElems(toks, i, acc) ==
    LET r == ParseValue(toks, i) IN
    IF ~r.ok \/ r.next > Len(toks) THEN ParseFail
    ELSE IF toks[r.next] = RBracket
         THEN ParseOk(Value("array", EmptyStr, Append(acc, r.val)), r.next + 1)
    ELSE IF toks[r.next] = Comma THEN ParseElems(toks, r.next + 1, Append(acc, r.val))
    ELSE ParseFail

\* the members of an object after "{" or ",": toks[i] is a key
ParseMembers(toks, i, acc) ==
    IF i + 1 > Len(toks) \/ toks[i].t # "str" \/ toks[i + 1] # Colon THEN ParseFail
    ELSE LET r == ParseValue(toks, i + 2) IN
         IF ~r.ok \/ r.next > Len(toks) THEN ParseFail
         ELSE LET m == Append(acc, [key |-> toks[i].s, val |-> r.val]) IN
              IF toks[r.next] = RBrace THEN ParseOk(Value("object", EmptyStr, m), r.next + 1)
              ELSE IF toks[r.next] = Comma THEN ParseMembers(toks, r.next + 1, m)
              ELSE ParseFail

ParseValue(toks, i) ==
    IF i > Len(toks) THEN ParseFail
    ELSE IF toks[i].t = "str" THEN ParseOk(Value("string", toks[i].s, << >>), i + 1)
    ELSE IF toks[i] = NullTok THEN ParseOk(Value("null", EmptyStr, << >>), i + 1)
    ELSE IF toks[i] = LBracket
         THEN IF i + 1 <= Len(toks) /\ toks[i + 1] = RBracket
              THEN ParseOk(Value("array", EmptyStr, << >>), i + 2)
              ELSE ParseElems(toks, i + 1, << >>)
    ELSE IF toks[i] = LBrace
         THEN IF i + 1 <= Len(toks) /\ toks[i + 1] = RBrace
              THEN ParseOk(Value("object", EmptyStr, << >>), i + 2)
              ELSE ParseMembers(toks, i + 1, << >>)
    ELSE ParseFail

\* JSON.parse: ok is FALSE where it throws SyntaxError
JSONParse(toks) ==
    LET r == ParseValue(toks, 1) IN
    IF r.ok /\ r.next = Len(toks) + 1 THEN r ELSE ParseFail

RECURSIVE PropFrom(_, _, _)
PropFrom(members, key, i) ==
    IF i = 0 THEN EmptyStr
    ELSE IF members[i].key = key THEN members[i].val.s
    ELSE PropFrom(members, key, i - 1)

\* obj[key] of a parsed object whose properties are strings (the last of
\* two members with one key wins)
Prop(obj, key) == PropFrom(obj.elems, key, Len(obj.elems))

\* a parsed array of note objects, as the notes state holds it
NotesOf(arr) ==
    [i \in 1..Len(arr.elems) |->
        [id |-> Prop(arr.elems[i], KeyId),
         title |-> Prop(arr.elems[i], KeyTitle),
         content |-> Prop(arr.elems[i], KeyContent),
         lastEdited |-> Prop(arr.elems[i], KeyLastEdited)]]

\* ----------------------------------------------------------------- state
VARIABLES
    notes,          \* useState: the collection, a sequence of notes
    selectedId,     \* useState: an id or null
    isCreating,     \* useState
    editNote,       \* useState: the draft { title, content }
    search,         \* useState: the sidebar's query
    sidebarOpen,    \* useState
    storage,        \* localStorage's key "noteease-notes"
    now,            \* the system clock, in milliseconds
    phase,          \* "boot" before the first render, "ready" once mounted,
                    \* "crashed" when the first render threw
    cmd,            \* history: the last event that reached the notes, the selection
                    \* or the form, [op, arg]
    netCreated,     \* history: the accepted create-saves minus the notes deleted
    prior,          \* history: while creating, the selection when add was clicked
    opened          \* history: the id the draft was opened for by edit, null once
                    \* add, select, delete, cancel or an accepted save followed

vars == <<notes, selectedId, isCreating, editNote, search, sidebarOpen, storage, now,
          phase, cmd, netCreated, prior, opened>>

EmptyDraft == [title |-> EmptyStr, content |-> EmptyStr]

Note(id, title, content, lastEdited) ==
    [id |-> id, title |-> title, content |-> content, lastEdited |-> lastEdited]

Missing == [present |-> FALSE, text |-> << >>]      \* getItem returns null
Stored(text) == [present |-> TRUE, text |-> text]

\* what an earlier session left in the collection
StoredA == Note(NumberToString(0), <<"a">>, <<"b">>, ToISOString(0))
StoredB == Note(NumberToString(1), Untitled, <<"b">>, ToISOString(1))

WellFormedValues ==
    {Stored(JSONStringify(<< >>)), Stored(JSONStringify(<<StoredA>>)),
     Stored(JSONStringify(<<StoredB, StoredA>>))}

\* strings that are no JSON text: "[{" and "notes"
MalformedValues == {Stored(<<LBracket, LBrace>>), Stored(<<BadTok>>)}

\* JSON texts that are no array: {} and "a" and null
NonArrayValues == {Stored(<<LBrace, RBrace>>), Stored(<<StrTok(<<"a">>)>>), Stored(<<NullTok>>)}

DurableValues ==
    {Missing, Stored(<< >>)} \cup WellFormedValues \cup MalformedValues \cup NonArrayValues

\* what the user can type into the form's fields and the search box
TitleInputs == {EmptyStr, <<" ">>, <<" ", "a">>}
ContentInputs == {EmptyStr, <<"b">>}
Queries == {EmptyStr, <<"A">>}

Event(op, arg) == [op |-> op, arg |-> arg]

Init ==
    /\ notes = << >>
    /\ selectedId = null
    /\ isCreating = FALSE
    /\ editNote = EmptyDraft
    /\ search = EmptyStr
    /\ sidebarOpen = TRUE
    /\ storage \in DurableValues
    /\ now = 2
    /\ phase = "boot"
    /\ cmd = Event("none", null)
    /\ netCreated = 0
    /\ prior = null
    /\ opened = null

\* ------------------------------------------------------------ derived view
Ids(ns) == {ns[i].id : i \in 1..Len(ns)}

RECURSIVE WithoutIdKept(_, _)
\* the predicate written (n) => n.id === id
WithoutIdKept(ns, id) ==
    IF ns = << >> THEN << >>
    ELSE IF Head(ns).id = id THEN <<Head(ns)>> \o WithoutIdKept(Tail(ns), id)
    ELSE WithoutIdKept(Tail(ns), id)

\* the removal written notes.splice(notes.findIndex((n) => n.id === id), 1):
\* with no match findIndex gives -1 and splice takes the last note
WithoutIdSplice(ns, id) ==
    IF \E i \in 1..Len(ns) : ns[i].id = id
    THEN LET k == CHOOSE i \in 1..Len(ns) :
                      ns[i].id = id /\ \A j \in 1..(i - 1) : ns[j].id # id
         IN SubSeq(ns, 1, k - 1) \o SubSeq(ns, k + 1, Len(ns))
    ELSE SubSeq(ns, 1, Len(ns) - 1)

\* Array.prototype.filter with the predicate (n) => n.id !== id
RECURSIVE WithoutId(_, _)
WithoutId(ns, id) ==
    IF ns = << >> THEN << >>
    ELSE IF Head(ns).id # id THEN <<Head(ns)>> \o WithoutId(Tail(ns), id)
    ELSE WithoutId(Tail(ns), id)

Matches(n, q) ==
    \/ Includes(ToLowerCase(n.title), ToLowerCase(q))
    \/ Includes(ToLowerCase(n.content), ToLowerCase(q))

RECURSIVE Matching(_, _)
Matching(ns, q) ==
    IF ns = << >> THEN << >>
    ELSE IF Matches(Head(ns), q) THEN <<Head(ns)>> \o Matching(Tail(ns), q)
    ELSE Matching(Tail(ns), q)

filteredNotes == IF Truthy(search) THEN Matching(notes, search) ELSE notes

\* notes.find((n) => n.id === selectedId): found is FALSE for undefined
Find(ns, id) ==
    IF \E i \in 1..Len(ns) : ns[i].id = id
    THEN [found |-> TRUE,
          note |-> ns[CHOOSE i \in 1..Len(ns) :
                        ns[i].id = id /\ \A j \in 1..(i - 1) : ns[j].id # id]]
    ELSE [found |-> FALSE, note |-> Note(null, EmptyStr, EmptyStr, EmptyStr)]

currentNote == Find(notes, selectedId)

\* MainArea's branches
FormShown == isCreating \/ (Truthy(selectedId) /\ editNote.title # EmptyStr)
ViewShown == ~FormShown /\ currentNote.found

\* the controller's states
Creating == phase = "ready" /\ isCreating
Editing == phase = "ready" /\ ~isCreating /\ FormShown
Viewing == phase = "ready" /\ ViewShown
NoNotes == phase = "ready" /\ ~FormShown /\ ~currentNote.found

\* ---------------------------------------------------------------- effects
\* the effect selecting the oldest note: notes[notes.length - 1].id
AutoSelectLast(ns, sel, cr, ed) ==
    IF Len(ns) = 0 THEN [sel |-> null, cr |-> FALSE, ed |-> EmptyDraft]
    ELSE [sel |-> IF Falsy(sel) THEN ns[Len(ns)].id ELSE sel, cr |-> cr, ed |-> ed]

\* the effect without its branch selecting the first note
AutoSelectNever(ns, sel, cr, ed) ==
    IF Len(ns) = 0 THEN [sel |-> null, cr |-> FALSE, ed |-> EmptyDraft]
    ELSE [sel |-> sel, cr |-> cr, ed |-> ed]

\* the effect on [notes, selectedId], run once
AutoSelect(ns, sel, cr, ed) ==
    IF Len(ns) = 0 THEN [sel |-> null, cr |-> FALSE, ed |-> EmptyDraft]
    ELSE [sel |-> IF Falsy(sel) THEN ns[1].id ELSE sel, cr |-> cr, ed |-> ed]

RECURSIVE Settle(_, _, _, _, _, _)
\* the renders and effect runs after an update, until no dependency of the
\* effect changes: changed says that notes is a new array, was is selectedId
\* at the previous render
Settle(ns, changed, was, sel, cr, ed) ==
    IF changed \/ sel # was
    THEN LET r == AutoSelect(ns, sel, cr, ed) IN Settle(ns, FALSE, sel, r.sel, r.cr, r.ed)
    ELSE [sel |-> sel, cr |-> cr, ed |-> ed]

\* the persist effect given no dependency: it runs at the mount only
CommitUnsaved(ns, changed, sel, cr, ed) ==
    LET r == Settle(ns, changed, selectedId, sel, cr, ed) IN
    /\ notes' = ns
    /\ selectedId' = r.sel
    /\ isCreating' = r.cr
    /\ editNote' = r.ed
    /\ storage' = storage

\* the state after the handler's updates ns, sel, cr, ed have settled
Commit(ns, changed, sel, cr, ed) ==
    LET r == Settle(ns, changed, selectedId, sel, cr, ed) IN
    /\ notes' = ns
    /\ selectedId' = r.sel
    /\ isCreating' = r.cr
    /\ editNote' = r.ed
    /\ storage' = IF changed THEN Stored(JSONStringify(ns)) ELSE storage

\* --------------------------------------------------------------- startup
\* the notes state's initializer and the first render: ok is FALSE when
\* JSON.parse throws or the render throws on a value that is no array
Load(st) ==
    IF ~st.present \/ st.text = << >> THEN [ok |-> TRUE, notes |-> << >>]
    ELSE LET p == JSONParse(st.text) IN
         IF ~p.ok THEN [ok |-> FALSE, notes |-> << >>]
         ELSE IF p.val.kind # "array" THEN [ok |-> FALSE, notes |-> << >>]
         ELSE [ok |-> TRUE, notes |-> NotesOf(p.val)]

\* the component mounts: all three effects run
Mount(wide) ==
    /\ phase = "boot"
    /\ Load(storage).ok
    /\ LET ns == Load(storage).notes
           r == Settle(ns, TRUE, null, null, FALSE, EmptyDraft) IN
       /\ notes' = ns
       /\ selectedId' = r.sel
       /\ isCreating' = r.cr
       /\ editNote' = r.ed
       /\ storage' = Stored(JSONStringify(ns))
    /\ sidebarOpen' = wide
    /\ phase' = "ready"
    /\ cmd' = Event("start", null)
    /\ UNCHANGED <<search, now, netCreated, prior, opened>>

\* the first render throws: nothing is mounted and no effect runs
Crash ==
    /\ phase = "boot"
    /\ ~Load(storage).ok
    /\ phase' = "crashed"
    /\ cmd' = Event("start", null)
    /\ UNCHANGED <<notes, selectedId, isCreating, editNote, search, sidebarOpen, storage,
                   now, netCreated, prior, opened>>

\* -------------------------------------------------------------- handlers
handleAddNote ==
    /\ phase = "ready"
    /\ Commit(notes, FALSE, null, TRUE, EmptyDraft)
    /\ cmd' = Event("add", null)
    /\ prior' = IF isCreating THEN prior ELSE selectedId
    /\ opened' = null
    /\ UNCHANGED <<search, sidebarOpen, now, phase, netCreated>>

handleSelectNote(noteId) ==
    /\ phase = "ready"
    /\ noteId \in Ids(filteredNotes)
    /\ Commit(notes, FALSE, noteId, FALSE, EmptyDraft)
    /\ cmd' = Event("select", noteId)
    /\ prior' = null
    /\ opened' = null
    /\ UNCHANGED <<search, sidebarOpen, now, phase, netCreated>>

\* the draft taking the title only: content: currentNote.content left out
handleEditNoteTitleOnly ==
    /\ phase = "ready"
    /\ ViewShown
    /\ Commit(notes, FALSE, selectedId, FALSE,
              IF currentNote.found
              THEN [title |-> currentNote.note.title, content |-> EmptyStr]
              ELSE editNote)
    /\ cmd' = Event("edit", selectedId)
    /\ prior' = null
    /\ opened' = selectedId
    /\ UNCHANGED <<search, sidebarOpen, now, phase, netCreated>>

handleEditNote ==
    /\ phase = "ready"
    /\ ViewShown
    /\ Commit(notes, FALSE, selectedId, FALSE,
              IF currentNote.found
              THEN [title |-> currentNote.note.title, content |-> currentNote.note.content]
              ELSE editNote)
    /\ cmd' = Event("edit", selectedId)
    /\ prior' = null
    /\ opened' = selectedId
    /\ UNCHANGED <<search, sidebarOpen, now, phase, netCreated>>

\* the ids whose delete button is on the screen
Deletable == Ids(filteredNotes) \cup (IF ViewShown THEN {currentNote.note.id} ELSE {})

handleDeleteNote(idToDelete) ==
    /\ phase = "ready"
    /\ idToDelete \in Deletable
    /\ LET updated == WithoutId(notes, idToDelete) IN
       /\ Commit(updated, TRUE,
                 IF selectedId = idToDelete
                 THEN (IF Len(updated) # 0 THEN updated[1].id ELSE null)
                 ELSE selectedId,
                 FALSE, editNote)
       /\ netCreated' = netCreated - (Len(notes) - Len(updated))
    /\ cmd' = Event("delete", idToDelete)
    /\ prior' = null
    /\ opened' = null
    /\ UNCHANGED <<search, sidebarOpen, now, phase>>

\* the map without its test of n.id: every note takes the draft
UpdatedAll(prev, id, title, content, lastEdited) ==
    [i \in 1..Len(prev) |->
        [prev[i] EXCEPT !.title = title, !.content = content, !.lastEdited = lastEdited]]

\* prev.map(...) of the update branch
Updated(prev, id, title, content, lastEdited) ==
    [i \in 1..Len(prev) |->
        IF prev[i].id = id
        THEN [prev[i] EXCEPT !.title = title, !.content = content,
                             !.lastEdited = lastEdited]
        ELSE prev[i]]

\* the placeholder left out: title: trimmedTitle
TitleOfRaw(trimmedTitle) == trimmedTitle

\* title: trimmedTitle || "(Untitled)"
TitleOf(trimmedTitle) == IF Falsy(trimmedTitle) THEN Untitled ELSE trimmedTitle

handleSaveNote ==
    /\ phase = "ready"
    /\ FormShown
    /\ LET trimmedTitle == Trim(OrEmpty(editNote.title))
           trimmedContent == Trim(OrEmpty(editNote.content)) IN
       IF Falsy(trimmedTitle) /\ Falsy(trimmedContent)
       THEN /\ cmd' = Event("reject", null)
            /\ UNCHANGED <<notes, selectedId, isCreating, editNote, storage, now,
                           netCreated, prior, opened>>
       ELSE IF Truthy(selectedId) /\ ~isCreating
       THEN /\ Commit(Updated(notes, selectedId, TitleOf(trimmedTitle), trimmedContent,
                              ToISOString(now)),
                      TRUE, selectedId, isCreating, EmptyDraft)
            /\ cmd' = Event("update", selectedId)
            /\ prior' = null
            /\ opened' = null
            /\ UNCHANGED <<now, netCreated>>
       ELSE /\ Len(notes) < MaxNotes
            /\ LET id == NumberToString(now) IN
               /\ Commit(<<Note(id, TitleOf(trimmedTitle), trimmedContent,
                                ToISOString(now))>> \o notes,
                         TRUE, id, FALSE, EmptyDraft)
               /\ cmd' = Event("create", id)
            /\ netCreated' = netCreated + 1
            /\ prior' = null
            /\ opened' = null
            /\ UNCHANGED now
    /\ UNCHANGED <<search, sidebarOpen, phase>>

\* the Cancel button's onClick
handleCancel ==
    /\ phase = "ready"
    /\ FormShown
    /\ Commit(notes, FALSE, selectedId, FALSE, EmptyDraft)
    /\ cmd' = Event("cancel", null)
    /\ prior' = null
    /\ opened' = null
    /\ UNCHANGED <<search, sidebarOpen, now, phase, netCreated>>

\* the field bound to the stored note: typing writes through to the selected note
handleFieldChangeLive(name, value) ==
    /\ phase = "ready"
    /\ FormShown
    /\ Commit([i \in 1..Len(notes) |->
                  IF notes[i].id = selectedId /\ ~isCreating
                  THEN [notes[i] EXCEPT ![name] = value]
                  ELSE notes[i]],
              TRUE, selectedId, isCreating, [editNote EXCEPT ![name] = value])
    /\ cmd' = Event("type", null)
    /\ UNCHANGED <<search, sidebarOpen, now, phase, netCreated, prior, opened>>

\* the spread left out: setEditNote({ [ev.target.name]: ev.target.value })
handleFieldChangeNoSpread(name, value) ==
    /\ phase = "ready"
    /\ FormShown
    /\ Commit(notes, FALSE, selectedId, isCreating, [EmptyDraft EXCEPT ![name] = value])
    /\ cmd' = Event("type", null)
    /\ UNCHANGED <<search, sidebarOpen, now, phase, netCreated, prior, opened>>

handleFieldChange(name, value) ==
    /\ phase = "ready"
    /\ FormShown
    /\ Commit(notes, FALSE, selectedId, isCreating, [editNote EXCEPT ![name] = value])
    /\ cmd' = Event("type", null)
    /\ UNCHANGED <<search, sidebarOpen, now, phase, netCreated, prior, opened>>

\* the search box's onChange
handleSearch(q) ==
    /\ phase = "ready"
    /\ search' = q
    /\ UNCHANGED <<notes, selectedId, isCreating, editNote, sidebarOpen, storage, now,
                   phase, cmd, netCreated, prior, opened>>

handleSidebarToggle ==
    /\ phase = "ready"
    /\ sidebarOpen' = ~sidebarOpen
    /\ UNCHANGED <<notes, selectedId, isCreating, editNote, search, storage, now,
                   phase, cmd, netCreated, prior, opened>>

\* the window's resize listener: wide is window.innerWidth > 800
handleResize(wide) ==
    /\ phase = "ready"
    /\ sidebarOpen' = wide
    /\ UNCHANGED <<notes, selectedId, isCreating, editNote, search, storage, now,
                   phase, cmd, netCreated, prior, opened>>

\* a millisecond passes
Tick ==
    /\ phase = "ready"
    /\ now < MaxClock
    /\ now' = now + 1
    /\ UNCHANGED <<notes, selectedId, isCreating, editNote, search, sidebarOpen, storage,
                   phase, cmd, netCreated, prior, opened>>

AllIds == {NumberToString(t) : t \in 0..MaxClock}

\* every event of a mounted component, and the mount itself
Run ==
    \/ \E wide \in BOOLEAN : Mount(wide)
    \/ handleAddNote
    \/ \E noteId \in AllIds : handleSelectNote(noteId)
    \/ handleEditNote
    \/ \E idToDelete \in AllIds : handleDeleteNote(idToDelete)
    \/ handleSaveNote
    \/ handleCancel
    \/ \E value \in TitleInputs : handleFieldChange("title", value)
    \/ \E value \in ContentInputs : handleFieldChange("content", value)
    \/ \E q \in Queries : handleSearch(q)
    \/ handleSidebarToggle
    \/ \E wide \in BOOLEAN : handleResize(wide)
    \/ Tick

Next == Crash \/ Run

Spec == Init /\ [][Next]_vars

\* the same program started on an empty store: no key, "" or "[]"
InitFresh == Init /\ Load(storage) = [ok |-> TRUE, notes |-> << >>]
SpecFresh == InitFresh /\ [][Run]_vars

\* handleDeleteNote called with an id that no note of the collection has (a
\* caller holding a stale id; no button on the screen does this)
handleDeleteAbsent(idToDelete) ==
    /\ phase = "ready"
    /\ idToDelete \notin Ids(notes)
    /\ LET updated == WithoutId(notes, idToDelete) IN
       /\ Commit(updated, TRUE,
                 IF selectedId = idToDelete
                 THEN (IF Len(updated) # 0 THEN updated[1].id ELSE null)
                 ELSE selectedId,
                 FALSE, editNote)
       /\ netCreated' = netCreated - (Len(notes) - Len(updated))
    /\ cmd' = Event("deleteAbsent", idToDelete)
    /\ prior' = null
    /\ opened' = null
    /\ UNCHANGED <<search, sidebarOpen, now, phase>>

NextStale == Next \/ \E idToDelete \in AllIds : handleDeleteAbsent(idToDelete)

\* the program with callers that may pass a stale id to handleDeleteNote
SpecStale == Init /\ [][NextStale]_vars

\* ================================================================ claims
\* a step of delete(id), and a step of save
DeleteStep(id) == cmd' = Event("delete", id) /\ handleDeleteNote(id)
SaveStep == handleSaveNote

\* a string of spaces only, "" included
Blank(s) == \A i \in 1..Len(s) : s[i] = " "
BlankDraft == Blank(editNote.title) /\ Blank(editNote.content)

\* s from its first to its last character that is no space
Stripped(s) ==
    LET I == {i \in 1..Len(s) : s[i] # " "} IN
    IF I = {} THEN << >>
    ELSE SubSeq(s, CHOOSE i \in I : \A j \in I : i <= j, CHOOSE i \in I : \A j \in I : j <= i)

\* C1: startup never raises, whatever the key holds, and a missing or
\* malformed value (no JSON text, or JSON that is no array) gives the empty
\* collection.
C1_StartupNeverRaises ==
    [][phase = "boot" =>
        /\ phase' = "ready"
        /\ (storage \notin WellFormedValues => notes' = << >>)]_vars

\* C2: from an empty store, the ids in the collection are pairwise distinct
\* and the collection's size is the accepted create-saves minus the notes
\* deleted, whatever the clock reads.
C2_IdsDistinctAndCounted ==
    phase = "ready" =>
        /\ \A i, j \in 1..Len(notes) : i # j => notes[i].id # notes[j].id
        /\ Len(notes) = netCreated

\* C3: after delete(id) the controller is viewing an existing note or has
\* no notes: the form is never shown.
C3_DeleteCancelsForm ==
    [][\A id \in AllIds : DeleteStep(id) => (~FormShown' /\ (Viewing' \/ NoNotes'))]_vars

C5_CancelRestores ==
    [][handleCancel =>
        /\ selectedId' = (IF isCreating THEN prior ELSE selectedId)
        /\ ~FormShown'
        /\ editNote' = EmptyDraft
        /\ notes' = notes]_vars

\* C6: after add has settled the controller is creating, the draft is empty,
\* the selection is none and the collection is unchanged.
C6_AddClearsSelection ==
    [][handleAddNote =>
        /\ Creating'
        /\ editNote' = EmptyDraft
        /\ selectedId' = null
        /\ notes' = notes]_vars

\* C7: once mounted, the key holds the serialization of the collection, and
\* loading it gives the same notes in the same order.
C7_StorageMirrorsNotes ==
    phase = "ready" =>
        /\ storage = Stored(JSONStringify(notes))
        /\ Load(storage) = [ok |-> TRUE, notes |-> notes]

C7_Witness ==
    /\ phase = "ready"
    /\ cmd.op = "update"
    /\ Len(notes) = 2
    /\ notes[1].lastEdited # notes[2].lastEdited

\* C8: a save of a draft that is blank after trimming changes nothing: the
\* collection, the key, the draft, the selection and the creating flag stay.
C8_BlankSaveRejected ==
    [][(SaveStep /\ BlankDraft) =>
        /\ notes' = notes
        /\ storage' = storage
        /\ editNote' = editNote
        /\ isCreating' = isCreating
        /\ selectedId' = selectedId]_vars

C8_Witness ==
    /\ cmd.op = "reject"
    /\ isCreating
    /\ editNote.title = <<" ">>
    /\ notes # << >>

\* C9: a save of a non-blank draft while creating puts one new note in front
\* of the unchanged previous notes, titled with the trimmed title or
\* "(Untitled)", and ends viewing the new note with the draft cleared.
C9_CreatePrepends ==
    [][(SaveStep /\ isCreating /\ ~BlankDraft) =>
        /\ Len(notes') = Len(notes) + 1
        /\ Tail(notes') = notes
        /\ notes'[1].title =
              (IF Blank(editNote.title) THEN Untitled ELSE Stripped(editNote.title))
        /\ selectedId' = notes'[1].id
        /\ Viewing'
        /\ editNote' = EmptyDraft]_vars

C9_Witness ==
    /\ cmd.op = "create"
    /\ Len(notes) = 2
    /\ notes[1].title = Untitled
    /\ selectedId = notes[1].id

\* C10: a save of a non-blank draft while editing changes only the title,
\* content and lastEdited of the notes with the selected id, keeps every
\* other note, the order and the size, and ends viewing that id with the
\* draft cleared.
C10_UpdateTouchesOne ==
    [][(SaveStep /\ Editing /\ ~BlankDraft) =>
        /\ Len(notes') = Len(notes)
        /\ \A i \in 1..Len(notes) :
              IF notes[i].id = selectedId
              THEN /\ notes'[i].id = notes[i].id
                   /\ notes'[i].title =
                         (IF Blank(editNote.title) THEN Untitled
                          ELSE Stripped(editNote.title))
                   /\ notes'[i].content = Stripped(editNote.content)
              ELSE notes'[i] = notes[i]
        /\ selectedId' = selectedId
        /\ Viewing'
        /\ editNote' = EmptyDraft]_vars

C10_Witness ==
    /\ cmd.op = "update"
    /\ Len(notes) = 2
    /\ cmd.arg = notes[2].id
    /\ notes[1].id # notes[2].id
    /\ notes[2].title = Untitled

\* C11: once mounted, a note is added only by a save while creating, a stored
\* note's fields change only by a save while that note is selected and the
\* controller is not creating, and notes go only by delete.
C11_OnlySaveAndDeleteTouchNotes ==
    [][phase = "ready" =>
        /\ (Len(notes') > Len(notes) =>
              SaveStep /\ isCreating /\ Len(notes') = Len(notes) + 1 /\ Tail(notes') = notes)
        /\ (Len(notes') < Len(notes) => \E id \in AllIds : DeleteStep(id))
        /\ (Len(notes') = Len(notes) /\ notes' # notes =>
              /\ SaveStep
              /\ ~isCreating
              /\ \A i \in 1..Len(notes) :
                    notes'[i] # notes[i] =>
                        notes[i].id = selectedId /\ notes'[i].id = notes[i].id)]_vars

C11_Witness ==
    /\ cmd.op = "cancel"
    /\ Len(notes) = 2
    /\ netCreated = 1
    /\ Viewing

\* C12: edit while viewing a note puts the controller in editing of that
\* note, with the draft equal to the note's title and content; the
\* collection is unchanged.
C12_EditOpensCopy ==
    [][(Viewing /\ handleEditNote) =>
        /\ Editing'
        /\ selectedId' = selectedId
        /\ \E i \in 1..Len(notes) :
              /\ notes[i].id = selectedId
              /\ editNote' = [title |-> notes[i].title, content |-> notes[i].content]
        /\ notes' = notes]_vars

C12_Witness ==
    /\ cmd.op = "edit"
    /\ Editing
    /\ Len(notes) = 2
    /\ selectedId = notes[2].id
    /\ editNote = [title |-> notes[2].title, content |-> notes[2].content]
    /\ editNote.content # EmptyStr

\* C13: from an empty store, every note in the collection has a non-empty
\* title, so none has both title and content empty.
C13_TitlesNonEmpty ==
    phase = "ready" =>
        \A i \in 1..Len(notes) :
            /\ notes[i].title # EmptyStr
            /\ ~(notes[i].title = EmptyStr /\ notes[i].content = EmptyStr)

C13_Witness ==
    /\ cmd.op = "update"
    /\ Len(notes) = 2
    /\ notes[2].title = Untitled
    /\ notes[1].content = EmptyStr
    /\ netCreated = 2

\* C14: once the component has mounted and its first effects have run, the
\* controller has no notes, no selection, no creating flag and an empty draft
\* when the loaded collection is empty, and otherwise views the first note
\* of the loaded collection.
C14_StartSelectsFirst ==
    [][(phase = "boot" /\ phase' = "ready") =>
        /\ notes' = Load(storage).notes
        /\ IF notes' = << >>
           THEN NoNotes' /\ selectedId' = null /\ ~isCreating' /\ editNote' = EmptyDraft
           ELSE Viewing' /\ selectedId' = notes'[1].id]_vars

C14_Witness ==
    /\ cmd.op = "start"
    /\ phase = "ready"
    /\ Len(notes) = 2
    /\ selectedId = notes[1].id
    /\ notes[1].id # notes[2].id

\* the form's field names and what can be typed into them
FieldNames == {"title", "content"}
FieldValues == TitleInputs \cup ContentInputs
OtherField(name) == IF name = "title" THEN "content" ELSE "title"

\* a step of typing value into the field name
TypeStep(name, value) == cmd'.op = "type" /\ handleFieldChange(name, value)

\* C15: a field change leaves the collection and the key unchanged; of the
\* draft it changes the named field only, and the selection and the creating
\* flag stay.
C15_TypingLeavesStore ==
    [][\A name \in FieldNames : \A value \in FieldValues :
        TypeStep(name, value) =>
            /\ notes' = notes
            /\ storage' = storage
            /\ editNote'[name] = value
            /\ editNote'[OtherField(name)] = editNote[OtherField(name)]
            /\ selectedId' = selectedId
            /\ isCreating' = isCreating]_vars

C15_Witness ==
    /\ cmd.op = "type"
    /\ Editing
    /\ opened = selectedId
    /\ editNote.title = <<" ", "a">>
    /\ editNote.content = <<"b">>
    /\ \E i \in 1..Len(notes) : notes[i].id = selectedId /\ notes[i].title = Untitled

\* the lower-case and upper-case forms of the letters notes and queries hold
CasePairs ==
    {{"a", "A"}, {"b", "B"}, {"d", "D"}, {"e", "E"}, {"i", "I"}, {"l", "L"},
     {"n", "N"}, {"t", "T"}, {"u", "U"}}
SameLetter(c, d) == c = d \/ {c, d} \in CasePairs

\* q occurs in hay, ignoring letter case
ContainsIgnoringCase(hay, q) ==
    \E i \in 0..(Len(hay) - Len(q)) : \A k \in 1..Len(q) : SameLetter(hay[i + k], q[k])

\* the notes the sidebar is to list
Listed ==
    IF search = EmptyStr THEN notes
    ELSE SelectSeq(notes, LAMBDA n : \/ ContainsIgnoringCase(n.title, search)
                                     \/ ContainsIgnoringCase(n.content, search))

\* C16: the filtered list is the collection when the query is empty, and
\* otherwise the notes whose title or content contains the query ignoring
\* letter case, in the collection's order; changing the query changes neither
\* the collection nor the selection.
C16_FilterIsSubsequence ==
    /\ [](phase = "ready" => filteredNotes = Listed)
    /\ [][\A q \in Queries : handleSearch(q) => notes' = notes /\ selectedId' = selectedId]_vars

C16_Witness ==
    /\ phase = "ready"
    /\ search = <<"A">>
    /\ Len(notes) = 2
    /\ filteredNotes = <<notes[2]>>
    /\ notes[1].title = Untitled

\* a step of delete(id) for an id no note has
DeleteAbsentStep(id) == cmd' = Event("deleteAbsent", id) /\ handleDeleteAbsent(id)

\* C17: delete(id) for an id that is not in the collection leaves the
\* collection, the selection and the key's content unchanged; after
\* delete(id) no note has the id, so a second delete(id) is such a step.
C17_DeleteIdempotent ==
    [][\A id \in AllIds :
        /\ DeleteAbsentStep(id) =>
              notes' = notes /\ selectedId' = selectedId /\ storage' = storage
        /\ DeleteStep(id) => id \notin Ids(notes')]_vars

C17_Witness ==
    /\ cmd.op = "deleteAbsent"
    /\ Len(notes) = 2
    /\ selectedId = notes[2].id
    /\ storage = Stored(JSONStringify(notes))

\* C18: whenever a save changes an existing note n, the draft was started by
\* an edit issued while n was selected, with no add, select or delete since
\* (opened is the id that edit was issued for, none after add, select, delete).
C18_SaveWritesOpenedNote ==
    [][(SaveStep /\ Len(notes') = Len(notes)) =>
          \A i \in 1..Len(notes) : notes'[i] # notes[i] => notes[i].id = opened]_vars

\* C19: while Editing(id), a field-change step leaves the controller in
\* Editing(id) for every new value of the field, the empty title included.
C19_TypingKeepsEditing ==
    [][\A name \in FieldNames : \A value \in FieldValues :
          (Editing /\ TypeStep(name, value)) => Editing' /\ selectedId' = selectedId]_vars

\* C20: in every settled state selectedId is none or the id of a note of the
\* collection, and it is none only when the collection is empty.
C20_SelectionNeverDangles ==
    phase = "ready" =>
        /\ selectedId = null \/ selectedId \in Ids(notes)
        /\ selectedId = null => notes = <<>>

C20_Witness ==
    /\ cmd.op = "add"
    /\ isCreating
    /\ Len(notes) = 2
    /\ selectedId = notes[1].id
    /\ prior = notes[2].id
====
